---------------------------- MODULE Spec2Model ----------------------------
(***************************************************************************)
(* Model of exploreLyon's utils: convex_hull_xy (utils/map.py, Andrew's    *)
(* monotone chain) and get_cluster_top_tags (utils/tag.py).                *)
(*                                                                         *)
(* Both are pure functions.  Each is an operator computed the way the code *)
(* computes it, and a specification draws the call's arguments in Init and *)
(* applies the function in one action.                                     *)
(*                                                                         *)
(* The coordinates are Python floats, IEEE-754 doubles.  A finite value is *)
(* a sign, an odd magnitude held as a list of limbs (least significant     *)
(* first) and a binary exponent: magnitude * 2^exponent; zero has a sign.  *)
(* Every subtraction and product is computed in full and then rounded to   *)
(* 53 significant bits, to nearest, ties to even, within the exponent      *)
(* range of a double: a result of 2^1024 or more is an infinity, a result  *)
(* below 2^-1022 is rounded to a multiple of 2^-1074 (a subnormal or a     *)
(* zero), and inf - inf and 0 * inf are nan.  The arguments of             *)
(* convex_hull_xy are finite; infinities and nan arise inside cross.       *)
(*                                                                         *)
(* Spec calls convex_hull_xy on lists of small coordinates in any order    *)
(* and with repeated points; SpecFar calls it on points whose cross        *)
(* products are rounded, overflow or underflow; SpecTags calls             *)
(* get_cluster_top_tags.                                                   *)
(***************************************************************************)
EXTENDS Integers, Sequences, FiniteSets

VARIABLES
    points_xy,        \* convex_hull_xy: the argument, a list of (x, y) tuples
    hull_xy,          \* convex_hull_xy: the returned list
    hull_pc,          \* "idle" before the call, "done" after it
    sample,           \* get_cluster_top_tags: the rows (cluster, tags)
    tags_to_delete,   \* get_cluster_top_tags: the tags to exclude
    n_top_tags,       \* get_cluster_top_tags: how many tags per cluster
    cluster_top_tags, \* get_cluster_top_tags: the returned dict
    tags_pc           \* "idle" before the call, "done" after it

vars == <<points_xy, hull_xy, hull_pc,
          sample, tags_to_delete, n_top_tags, cluster_top_tags, tags_pc>>

hull_vars == <<points_xy, hull_xy, hull_pc>>
tags_vars == <<sample, tags_to_delete, n_top_tags, cluster_top_tags, tags_pc>>

----------------------------------------------------------------------------
(* Magnitudes: natural numbers of any size *)

\* a magnitude is a list of limbs below Radix, least significant first
Radix == 2^15

\* the number of significant bits of one limb
RECURSIVE BitsOfLimb(_)
BitsOfLimb(d) == IF d = 0 THEN 0 ELSE 1 + BitsOfLimb(d \div 2)

\* the bits of one limb
LimbBits == BitsOfLimb(Radix - 1)

\* the magnitude of a natural number n
RECURSIVE Limbs(_)
Limbs(n) == IF n = 0 THEN <<>> ELSE <<n % Radix>> \o Limbs(n \div Radix)

\* a magnitude without zero limbs at its top
RECURSIVE Trim(_)
Trim(a) ==
    IF a # <<>> /\ a[Len(a)] = 0 THEN Trim(SubSeq(a, 1, Len(a) - 1)) ELSE a

\* -1, 0 or 1 as magnitude a is below, equal to or above magnitude b
RECURSIVE MagCmp(_, _)
MagCmp(a, b) ==
    IF Len(a) # Len(b) THEN (IF Len(a) < Len(b) THEN -1 ELSE 1)
    ELSE IF a = <<>> THEN 0
    ELSE LET n == Len(a)
         IN  IF a[n] # b[n] THEN (IF a[n] < b[n] THEN -1 ELSE 1)
             ELSE MagCmp(SubSeq(a, 1, n - 1), SubSeq(b, 1, n - 1))

LimbAt(a, i) == IF i <= Len(a) THEN a[i] ELSE 0

\* a + b + carry from limb i on
RECURSIVE MagAddFrom(_, _, _, _)
MagAddFrom(a, b, i, carry) ==
    IF i > Len(a) /\ i > Len(b)
    THEN (IF carry = 0 THEN <<>> ELSE <<carry>>)
    ELSE LET x == LimbAt(a, i) + LimbAt(b, i) + carry
         IN  <<x % Radix>> \o MagAddFrom(a, b, i + 1, x \div Radix)

MagAdd(a, b) == MagAddFrom(a, b, 1, 0)

\* a - b - borrow from limb i on, for a >= b
RECURSIVE MagSubFrom(_, _, _, _)
MagSubFrom(a, b, i, borrow) ==
    IF i > Len(a) THEN <<>>
    ELSE LET x == a[i] - LimbAt(b, i) - borrow
         IN  IF x < 0 THEN <<x + Radix>> \o MagSubFrom(a, b, i + 1, 1)
             ELSE <<x>> \o MagSubFrom(a, b, i + 1, 0)

MagSub(a, b) == Trim(MagSubFrom(a, b, 1, 0))

\* a * d + carry from limb i on, for one limb d
RECURSIVE MagMulLimbFrom(_, _, _, _)
MagMulLimbFrom(a, d, i, carry) ==
    IF i > Len(a) THEN (IF carry = 0 THEN <<>> ELSE <<carry>>)
    ELSE LET x == a[i] * d + carry
         IN  <<x % Radix>> \o MagMulLimbFrom(a, d, i + 1, x \div Radix)

RECURSIVE MagMulFrom(_, _, _)
MagMulFrom(a, b, j) ==
    IF j > Len(b) THEN <<>>
    ELSE MagAdd(MagMulLimbFrom(a, b[j], 1, 0), <<0>> \o MagMulFrom(a, b, j + 1))

MagMul(a, b) == IF a = <<>> \/ b = <<>> THEN <<>> ELSE Trim(MagMulFrom(a, b, 1))

\* the number of significant bits of a magnitude
MagBits(a) ==
    IF a = <<>> THEN 0 ELSE LimbBits * (Len(a) - 1) + BitsOfLimb(a[Len(a)])

\* a * 2^k
ShiftLeft(a, k) ==
    IF a = <<>> THEN <<>>
    ELSE [i \in 1..(k \div LimbBits) |-> 0]
             \o MagMulLimbFrom(a, 2^(k % LimbBits), 1, 0)

\* a div 2^k
ShiftRight(a, k) ==
    IF k >= MagBits(a) THEN <<>>
    ELSE LET d    == 2^(k % LimbBits)
             rest == SubSeq(a, (k \div LimbBits) + 1, Len(a))
         IN  Trim([i \in 1..Len(rest) |->
                       (rest[i] \div d)
                           + (LimbAt(rest, i + 1) % d) * (Radix \div d)])

\* the number of zero bits at the bottom of a limb d > 0
RECURSIVE LowZerosOfLimb(_)
LowZerosOfLimb(d) == IF d % 2 = 1 THEN 0 ELSE 1 + LowZerosOfLimb(d \div 2)

\* the number of zero bits at the bottom of a magnitude a > 0
RECURSIVE LowZeros(_)
LowZeros(a) ==
    IF a[1] = 0 THEN LimbBits + LowZeros(Tail(a)) ELSE LowZerosOfLimb(a[1])

\* a / 2^k rounded to the nearest natural number, a tie to the even one
RoundShift(a, k) ==
    LET q == ShiftRight(a, k)
        c == MagCmp(MagSub(a, ShiftLeft(q, k)), ShiftLeft(<<1>>, k - 1))
    IN  IF c > 0 \/ (c = 0 /\ q # <<>> /\ q[1] % 2 = 1)
        THEN MagAdd(q, <<1>>)
        ELSE q

----------------------------------------------------------------------------
(* Python floats *)

\* the significant bits of a double
DoubleBits == 53

\* every finite double is below 2^MaxExponent in magnitude
MaxExponent == 1024

\* every finite double is a multiple of 2^MinExponent
MinExponent == -1074

\* 0.0 and -0.0
Zero(neg) == [kind |-> "finite", neg |-> neg, mag |-> <<>>, exp |-> 0]

\* inf and -inf
Infinity(neg) == [kind |-> "inf", neg |-> neg, mag |-> <<>>, exp |-> 0]

NaN == [kind |-> "nan", neg |-> FALSE, mag |-> <<>>, exp |-> 0]

\* the value mag * 2^exp with its sign, its magnitude made odd
Finite(neg, mag, exp) ==
    IF mag = <<>> THEN Zero(neg)
    ELSE LET z == LowZeros(mag)
         IN  [kind |-> "finite", neg |-> neg,
              mag |-> ShiftRight(mag, z), exp |-> exp + z]

\* the float n * 2^e, for an integer n of at most DoubleBits bits
Scaled(n, e) ==
    IF n < 0 THEN Finite(TRUE, Limbs(0 - n), e) ELSE Finite(FALSE, Limbs(n), e)

\* the float of a small integer n
Float(n) == Scaled(n, 0)

IsZero(x) == x.kind = "finite" /\ x.mag = <<>>

\* the position of the top bit of a finite non-zero value
TopExponent(x) == x.exp + MagBits(x.mag)

\* -1, 0 or 1 as |x| is below, equal to or above |y|, for finite values
AbsCmp(x, y) ==
    IF x.mag = <<>> \/ y.mag = <<>>
    THEN (IF x.mag = y.mag THEN 0 ELSE IF x.mag = <<>> THEN -1 ELSE 1)
    ELSE IF TopExponent(x) # TopExponent(y)
    THEN (IF TopExponent(x) < TopExponent(y) THEN -1 ELSE 1)
    ELSE LET e == IF x.exp < y.exp THEN x.exp ELSE y.exp
         IN  MagCmp(ShiftLeft(x.mag, x.exp - e), ShiftLeft(y.mag, y.exp - e))

\* the exact sum of two finite values; an exact zero sum of two values is
\* +0.0 unless both are -0.0
ExactAdd(x, y) ==
    IF x.mag = <<>> /\ y.mag = <<>> THEN Zero(x.neg /\ y.neg)
    ELSE IF x.mag = <<>> THEN y
    ELSE IF y.mag = <<>> THEN x
    ELSE LET e == IF x.exp < y.exp THEN x.exp ELSE y.exp
             a == ShiftLeft(x.mag, x.exp - e)
             b == ShiftLeft(y.mag, y.exp - e)
             c == MagCmp(a, b)
         IN  IF x.neg = y.neg THEN Finite(x.neg, MagAdd(a, b), e)
             ELSE IF c = 0 THEN Zero(FALSE)
             ELSE IF c > 0 THEN Finite(x.neg, MagSub(a, b), e)
             ELSE Finite(y.neg, MagSub(b, a), e)

Negated(x) == [x EXCEPT !.neg = ~x.neg]

\* the exact difference and product of two finite values
ExactSub(x, y) == ExactAdd(x, Negated(y))

ExactMul(x, y) ==
    IF x.mag = <<>> \/ y.mag = <<>> THEN Zero(x.neg # y.neg)
    ELSE [kind |-> "finite", neg |-> x.neg # y.neg,
          mag |-> MagMul(x.mag, y.mag), exp |-> x.exp + y.exp]

\* the double of an exact finite value: rounded to DoubleBits significant
\* bits and to a multiple of 2^MinExponent, to nearest, ties to even; an
\* infinity when the rounded value reaches 2^MaxExponent
RoundToDouble(x) ==
    IF x.mag = <<>> THEN x
    ELSE LET top     == TopExponent(x)
             quantum == IF top - DoubleBits > MinExponent
                        THEN top - DoubleBits ELSE MinExponent
             r       == IF x.exp >= quantum THEN x
                        ELSE Finite(x.neg, RoundShift(x.mag, quantum - x.exp),
                                    quantum)
         IN  IF r.mag # <<>> /\ TopExponent(r) > MaxExponent
             THEN Infinity(x.neg)
             ELSE r

\* |y| is below a quarter of the last of the DoubleBits bits of x: the
\* exact x - y is then nearer to x than to any other double
Negligible(y, x) ==
    /\ x.mag # <<>>
    /\ y.mag # <<>>
    /\ TopExponent(y) <= TopExponent(x) - DoubleBits - 2

\* x - y on floats
float_sub(x, y) ==
    IF x.kind = "nan" \/ y.kind = "nan" THEN NaN
    ELSE IF x.kind = "inf" /\ y.kind = "inf"
    THEN (IF x.neg = y.neg THEN NaN ELSE x)
    ELSE IF x.kind = "inf" THEN x
    ELSE IF y.kind = "inf" THEN Negated(y)
    ELSE IF Negligible(y, x) THEN x
    ELSE IF Negligible(x, y) THEN Negated(y)
    ELSE RoundToDouble(ExactSub(x, y))

\* x * y on floats
float_mul(x, y) ==
    IF x.kind = "nan" \/ y.kind = "nan" THEN NaN
    ELSE IF x.kind = "inf" \/ y.kind = "inf"
    THEN (IF IsZero(x) \/ IsZero(y) THEN NaN ELSE Infinity(x.neg # y.neg))
    ELSE RoundToDouble(ExactMul(x, y))

\* x < y on floats: false when either is nan, and -0.0 is not below 0.0
float_lt(x, y) ==
    IF x.kind = "nan" \/ y.kind = "nan" THEN FALSE
    ELSE IF x.kind = "inf" THEN x.neg /\ ~(y.kind = "inf" /\ y.neg)
    ELSE IF y.kind = "inf" THEN ~y.neg
    ELSE IF IsZero(x) THEN ~IsZero(y) /\ ~y.neg
    ELSE IF IsZero(y) THEN x.neg
    ELSE IF x.neg # y.neg THEN x.neg
    ELSE IF x.neg THEN AbsCmp(x, y) > 0
    ELSE AbsCmp(x, y) < 0

\* x == y on floats: nan equals nothing, -0.0 equals 0.0
float_eq(x, y) ==
    /\ x.kind # "nan"
    /\ y.kind # "nan"
    /\ x = y \/ (IsZero(x) /\ IsZero(y))

\* x <= y on floats
float_le(x, y) == float_lt(x, y) \/ float_eq(x, y)

----------------------------------------------------------------------------
(* Bounds of the model *)

\* Spec: coordinates range over the floats 0.0 .. MaxCoord
MaxCoord == 1
\* Spec: the longest input list of points
MaxLen == 4

Coords == {Float(i) : i \in 0..MaxCoord}

Points == Coords \X Coords

\* the lists of n points
PointLists(n) == [1..n -> Points]

\* SpecFar: the near points have x in 0.0 .. MaxX and y in 0.0 .. MaxY
MaxX == 1
MaxY == 3
\* SpecFar: the most points of an input
MaxPoints == 4

\* 2^52 + 4 and three times it, 2^53 + 2^52 + 12: both are doubles, and a
\* product of two differences of such coordinates needs more than 53 bits
FarX == ExactAdd(Scaled(1, DoubleBits - 1), Float(4))

FarY == ExactMul(Float(3), FarX)

NearPoints == {Float(i) : i \in 0..MaxX} \X {Float(j) : j \in 0..MaxY}

\* the near points and two points at height FarY
FarPoints == NearPoints \cup {<<Float(1), FarY>>, <<FarX, FarY>>}

\* the largest double, 2^1024 - 2^971: twice it and its square overflow
Huge == ExactSub(Scaled(1, MaxExponent), Scaled(1, MaxExponent - DoubleBits))

HugePoints == {Negated(Huge), Float(0), Huge} \X {Negated(Huge), Float(0), Huge}

\* 2^-538 and three times it: their products are below 2^-1022
Tiny == Scaled(1, (MinExponent \div 2) - 1)

ThreeTiny == ExactMul(Float(3), Tiny)

\* points around the origin, and the origin written with -0.0
TinyPoints ==
    ({Float(0), Tiny, ThreeTiny} \X {Float(0), Tiny, ThreeTiny})
        \cup {<<Zero(TRUE), Zero(TRUE)>>}

\* the most rows of a sample
MaxRows == 2
\* the longest list of tags of one row
MaxTagsPerRow == 2
\* the largest n_top_tags
MaxTopTags == 2

\* cluster identifiers: the noise cluster -1 and two clusters
Clusters == {-1, 0, 1}

TagNames == {"lyon", "parc"}

\* the values of tags_to_delete
DeleteChoices == SUBSET TagNames

TagLists == UNION {[1..n -> TagNames] : n \in 0..MaxTagsPerRow}

\* a row of the sample: its 'cluster' and its 'tags' cell; is_list is FALSE
\* for a cell that holds None in place of a list
Rows == [cluster : Clusters, tags : TagLists, is_list : {TRUE}]
            \cup [cluster : Clusters, tags : {<<>>}, is_list : {FALSE}]

\* the samples of n rows
Samples(n) == [1..n -> Rows]

----------------------------------------------------------------------------
(* convex_hull_xy *)

\* Python's tuple order on (x, y): by the first coordinates that differ
tuple_lt(p, q) ==
    IF float_eq(p[1], q[1]) THEN float_lt(p[2], q[2]) ELSE float_lt(p[1], q[1])

\* Python's tuple equality on (x, y)
tuple_eq(p, q) == float_eq(p[1], q[1]) /\ float_eq(p[2], q[2])

\* set(points_xy): of the elements of a list that are equal, the first
set(s) ==
    {s[i] : i \in {k \in DOMAIN s : \A j \in 1..(k - 1) : ~tuple_eq(s[j], s[k])}}

\* sorted(S): the elements of S in increasing tuple order
RECURSIVE sorted(_)
sorted(S) ==
    IF S = {} THEN <<>>
    ELSE LET m == CHOOSE p \in S : \A q \in S : p = q \/ tuple_lt(p, q)
         IN  <<m>> \o sorted(S \ {m})

\* the distinct elements of a list in order of first occurrence: what
\* line 17 would give without the sort
RECURSIVE first_occurrences(_)
first_occurrences(s) ==
    IF s = <<>> THEN <<>>
    ELSE LET front == first_occurrences(SubSeq(s, 1, Len(s) - 1))
             last  == s[Len(s)]
         IN  IF \E i \in DOMAIN front : tuple_eq(front[i], last)
             THEN front ELSE Append(front, last)

\* pts = sorted(set(points_xy))
sorted_unique(s) == sorted(set(s))

\* reversed(pts)
RECURSIVE reversed(_)
reversed(s) == IF s = <<>> THEN <<>> ELSE Append(reversed(Tail(s)), Head(s))

\* cross(o, a, b): each subtraction and each product is rounded to a double
cross(o, a, b) ==
    float_sub(float_mul(float_sub(a[1], o[1]), float_sub(b[2], o[2])),
              float_mul(float_sub(a[2], o[2]), float_sub(b[1], o[1])))

\* a loop condition that pops only on a strict right turn
strict_right_turn(o, a, p) == float_lt(cross(o, a, p), Float(0))

\* the condition of the while loops: cross(chain[-2], chain[-1], p) <= 0
not_left_turn(o, a, p) == float_le(cross(o, a, p), Float(0))

\* while len(chain) >= 2 and cross(chain[-2], chain[-1], p) <= 0: chain.pop()
RECURSIVE pop_while(_, _)
pop_while(chain, p) ==
    IF Len(chain) >= 2 /\ not_left_turn(chain[Len(chain) - 1], chain[Len(chain)], p)
    THEN pop_while(SubSeq(chain, 1, Len(chain) - 1), p)
    ELSE chain

\* one for loop: for p in seq[i:]: pop while not a left turn; chain.append(p)
RECURSIVE build_chain(_, _, _)
build_chain(chain, seq, i) ==
    IF i > Len(seq) THEN chain
    ELSE build_chain(Append(pop_while(chain, seq[i]), seq[i]), seq, i + 1)

\* lower, after the loop over pts
lower(pts) == build_chain(<<>>, pts, 1)

\* an upper chain built over pts in increasing order
upper_forward(pts) == build_chain(<<>>, pts, 1)

\* upper, after the loop over reversed(pts)
upper(pts) == build_chain(<<>>, reversed(pts), 1)

\* a slice that keeps the last element
whole(s) == s

\* s[:-1]
but_last(s) == SubSeq(s, 1, Len(s) - 1)

\* a degenerate test that lets two points through
fewer_than_two(pts) == Len(pts) < 2

\* len(pts) < 3
fewer_than_three(pts) == Len(pts) < 3

\* each tuple with its coordinates exchanged, as (y, x)
swap_xy(s) == [i \in 1..Len(s) |-> <<s[i][2], s[i][1]>>]

\* the returned list of tuples, as built
as_xy(s) == s

convex_hull_xy(points) ==
    LET pts == sorted_unique(points)
    IN  IF fewer_than_three(pts) THEN <<>>
        ELSE as_xy(but_last(lower(pts)) \o but_last(upper(pts)))

----------------------------------------------------------------------------
(* get_cluster_top_tags *)

\* sample["cluster"].unique(), without the noise cluster skipped at line 20
cluster_ids(rows) == {rows[i].cluster : i \in DOMAIN rows} \ {-1}

\* cluster_data = sample[sample["cluster"] == cluster_id]
cluster_data(rows, cluster_id) ==
    SelectSeq(rows, LAMBDA r : r.cluster = cluster_id)

\* [tag for tag in tags_list if tag not in tags_to_delete]
kept_tags(tags_list, to_delete) ==
    SelectSeq(tags_list, LAMBDA tag : tag \notin to_delete)

\* the loop over cluster_data["tags"]: a cell that is empty or not a list
\* adds nothing
RECURSIVE all_cluster_tags(_, _)
all_cluster_tags(rows, to_delete) ==
    IF rows = <<>> THEN <<>>
    ELSE LET cell == Head(rows)
             more == IF Len(cell.tags) > 0 /\ cell.is_list
                     THEN kept_tags(cell.tags, to_delete)
                     ELSE <<>>
         IN  more \o all_cluster_tags(Tail(rows), to_delete)

\* the keys of Counter(tags), in insertion order: first occurrence
RECURSIVE counter_keys(_)
counter_keys(tags) ==
    IF tags = <<>> THEN <<>>
    ELSE LET front == counter_keys(SubSeq(tags, 1, Len(tags) - 1))
             last  == tags[Len(tags)]
         IN  IF \E i \in DOMAIN front : front[i] = last
             THEN front ELSE Append(front, last)

\* Counter(tags)[tag]
tag_count(tags, tag) == Cardinality({i \in DOMAIN tags : tags[i] = tag})

\* s without its element at position i
without(s, i) == SubSeq(s, 1, i - 1) \o SubSeq(s, i + 1, Len(s))

\* a selection that breaks ties towards the key inserted last
last_largest(keys, tags) ==
    CHOOSE i \in DOMAIN keys :
        /\ \A j \in DOMAIN keys : tag_count(tags, keys[j]) <= tag_count(tags, keys[i])
        /\ \A j \in DOMAIN keys :
              tag_count(tags, keys[j]) = tag_count(tags, keys[i]) => j <= i

\* the position of the first key of the largest count: the next element of
\* a stable sort by decreasing count
first_largest(keys, tags) ==
    CHOOSE i \in DOMAIN keys :
        /\ \A j \in DOMAIN keys : tag_count(tags, keys[j]) <= tag_count(tags, keys[i])
        /\ \A j \in DOMAIN keys :
              tag_count(tags, keys[j]) = tag_count(tags, keys[i]) => i <= j

\* the first n of keys sorted by decreasing count, keys of equal count kept
\* in their order
RECURSIVE n_largest(_, _, _)
n_largest(keys, tags, n) ==
    IF n <= 0 \/ keys = <<>> THEN <<>>
    ELSE LET i == first_largest(keys, tags)
         IN  <<keys[i]>> \o n_largest(without(keys, i), tags, n - 1)

\* [tag for tag, count in Counter(tags).most_common(n)]
most_common(tags, n) == n_largest(counter_keys(tags), tags, n)

\* the value stored for one cluster
top_tags(rows, to_delete, n, cluster_id) ==
    LET tags == all_cluster_tags(cluster_data(rows, cluster_id), to_delete)
    IN  IF tags # <<>> THEN most_common(tags, n) ELSE <<>>

get_cluster_top_tags(rows, to_delete, n) ==
    [cluster_id \in cluster_ids(rows) |-> top_tags(rows, to_delete, n, cluster_id)]


----------------------------------------------------------------------------
(* The specification of the calls of convex_hull_xy on small coordinates,  *)
(* in any order and with repetitions                                       *)

NoTags == [c \in {} |-> <<>>]

HullInit ==
    /\ \E n \in 0..MaxLen : points_xy \in PointLists(n)
    /\ hull_xy = <<>>
    /\ hull_pc = "idle"
    /\ sample = <<>>
    /\ tags_to_delete = {}
    /\ n_top_tags = 0
    /\ cluster_top_tags = NoTags
    /\ tags_pc = "idle"

\* hull_xy = convex_hull_xy(pts_xy)
CallConvexHull ==
    /\ hull_pc = "idle"
    /\ hull_xy' = convex_hull_xy(points_xy)
    /\ hull_pc' = "done"
    /\ UNCHANGED <<points_xy, tags_vars>>

HullNext == CallConvexHull

Spec == HullInit /\ [][HullNext]_vars

----------------------------------------------------------------------------
(* The specification of the calls of convex_hull_xy on coordinates whose   *)
(* cross products are rounded, overflow or underflow                       *)

\* the lists of n points of S in increasing tuple order
RECURSIVE IncreasingLists(_, _)
IncreasingLists(S, n) ==
    IF n = 0 THEN {<<>>}
    ELSE UNION {{Append(s, p) : p \in {q \in S :
                                          s = <<>> \/ tuple_lt(s[Len(s)], q)}} :
                s \in IncreasingLists(S, n - 1)}

FarInit ==
    /\ \E n \in 0..MaxPoints :
          points_xy \in IncreasingLists(FarPoints, n)
                            \cup IncreasingLists(HugePoints, n)
                            \cup IncreasingLists(TinyPoints, n)
    /\ hull_xy = <<>>
    /\ hull_pc = "idle"
    /\ sample = <<>>
    /\ tags_to_delete = {}
    /\ n_top_tags = 0
    /\ cluster_top_tags = NoTags
    /\ tags_pc = "idle"

SpecFar == FarInit /\ [][HullNext]_vars

----------------------------------------------------------------------------
(* The specification of the calls of get_cluster_top_tags *)

TagsInit ==
    /\ \E n \in 0..MaxRows : sample \in Samples(n)
    /\ tags_to_delete \in DeleteChoices
    /\ n_top_tags \in 0..MaxTopTags
    /\ cluster_top_tags = NoTags
    /\ tags_pc = "idle"
    /\ points_xy = <<>>
    /\ hull_xy = <<>>
    /\ hull_pc = "idle"

\* cluster_top_tags = get_cluster_top_tags(sample, tags_to_delete, n_top_tags)
CallGetClusterTopTags ==
    /\ tags_pc = "idle"
    /\ cluster_top_tags' = get_cluster_top_tags(sample, tags_to_delete, n_top_tags)
    /\ tags_pc' = "done"
    /\ UNCHANGED <<sample, tags_to_delete, n_top_tags, hull_vars>>

TagsNext == CallGetClusterTopTags

SpecTags == TagsInit /\ [][TagsNext]_vars

----------------------------------------------------------------------------
(* Vocabulary of the properties, defined apart from the code's operators *)

\* -1, 0 or 1 as an exact value is negative, zero or positive
SignOf(x) == IF x.mag = <<>> THEN 0 ELSE IF x.neg THEN -1 ELSE 1

\* the sign of the exact, unrounded cross product (b - a) x (c - a): 1 when
\* a, b, c turn counter-clockwise, 0 when they are on one line, -1 when they
\* turn clockwise
Turn(a, b, c) ==
    SignOf(ExactSub(ExactMul(ExactSub(b[1], a[1]), ExactSub(c[2], a[2])),
                    ExactMul(ExactSub(b[2], a[2]), ExactSub(c[1], a[1]))))

Distinct(s) == {s[i] : i \in DOMAIN s}

\* x is below y
Before(x, y) == SignOf(ExactSub(x, y)) < 0

AtMost(x, y) == ~Before(y, x)

\* x and y are the same number: 0.0 and -0.0 are
Same(x, y) == SignOf(ExactSub(x, y)) = 0

LexBefore(p, q) ==
    Before(p[1], q[1]) \/ (Same(p[1], q[1]) /\ Before(p[2], q[2]))

LexMin(S) == CHOOSE p \in S : \A q \in S : p = q \/ LexBefore(p, q)

LexMax(S) == CHOOSE p \in S : \A q \in S : p = q \/ LexBefore(q, p)

\* every point of S is on the line through its smallest and largest point
Collinear(S) ==
    S # {} =>
        LET a == LexMin(S)
            b == LexMax(S)
        IN  \A c \in S : Turn(a, b, c) = 0

\* the successor of position i around a list of n vertices
CycNext(i, n) == (i % n) + 1

\* b is on the closed segment from a to c
OnSegment(a, b, c) ==
    /\ (AtMost(a[1], b[1]) /\ AtMost(b[1], c[1])) \/ (AtMost(c[1], b[1]) /\ AtMost(b[1], a[1]))
    /\ (AtMost(a[2], b[2]) /\ AtMost(b[2], c[2])) \/ (AtMost(c[2], b[2]) /\ AtMost(b[2], a[2]))
    /\ Turn(a, b, c) = 0

NoRepeat(s) == \A i, j \in DOMAIN s : i # j => s[i] # s[j]

\* the test cross(o, a, b) <= 0 computed in floats has the outcome it has
\* for the exact cross product, on every three points of s taken in
\* increasing or in decreasing lexicographic order: the orders in which the
\* two chains evaluate it
CrossTestsExact(s) ==
    \A a \in Distinct(s) :
        \A b \in {p \in Distinct(s) : LexBefore(a, p)} :
            \A c \in {p \in Distinct(s) : LexBefore(b, p)} :
                /\ float_le(cross(a, b, c), Float(0)) <=> Turn(a, b, c) <= 0
                /\ float_le(cross(c, b, a), Float(0)) <=> Turn(c, b, a) <= 0

\* a point of s has a coordinate FarX or FarY
HasFarPoint(s) == \E i \in DOMAIN s : s[i][1] = FarX \/ s[i][2] = FarY

\* every cyclically consecutive triple of h turns strictly counter-clockwise
\* and no vertex is on the segment between two others
StrictlyConvexCCW(h) ==
    LET n == Len(h)
    IN  /\ \A i \in 1..n :
              Turn(h[i], h[CycNext(i, n)], h[CycNext(CycNext(i, n), n)]) > 0
        /\ \A i \in 1..n : \A k \in (i + 1)..n : \A j \in 1..n \ {i, k} :
              ~OnSegment(h[i], h[j], h[k])

\* every point of s is on the left of or on every directed edge of h
Contains(h, s) ==
    \A i \in 1..Len(h) : \A j \in DOMAIN s :
        Turn(h[i], h[CycNext(i, Len(h))], s[j]) >= 0

\* the hull of the returned list is the returned list, but for three or
\* more points of one line: then the returned list is the two extreme
\* points and its hull is the empty list
IdempotentUnlessCollinear(s, h) ==
    LET S == Distinct(s)
    IN  IF Cardinality(S) >= 3 /\ Collinear(S)
        THEN Len(h) = 2 /\ convex_hull_xy(h) = <<>>
        ELSE convex_hull_xy(h) = h

HullDone == hull_pc = "done"

----------------------------------------------------------------------------
(* Properties of convex_hull_xy on lists in any order and with repeated    *)
(* points, checked under Spec                                              *)

\* C1: an input with 0, 1 or 2 distinct points, in any order and with any
\* repetitions, gives the empty list.
C1_FewPointsEmpty ==
    HullDone /\ Cardinality(Distinct(points_xy)) <= 2 => hull_xy = <<>>

C1_Witness ==
    /\ HullDone
    /\ Len(points_xy) >= 3
    /\ Cardinality(Distinct(points_xy)) = 2
    /\ hull_xy = <<>>

\* C5: the returned list is a function of the set of distinct input points
\* alone: it is the list returned for those points listed once each in
\* increasing order, and it starts at the smallest of them.
C5_DependsOnSetOnly ==
    HullDone =>
        /\ hull_xy = convex_hull_xy(sorted(Distinct(points_xy)))
        /\ hull_xy # <<>> => hull_xy[1] = LexMin(Distinct(points_xy))

\* an input out of order and with a repeated point
C5_Witness ==
    /\ HullDone
    /\ Len(hull_xy) >= 3
    /\ ~NoRepeat(points_xy)
    /\ \E i \in 1..(Len(points_xy) - 1) : LexBefore(points_xy[i + 1], points_xy[i])

----------------------------------------------------------------------------
(* Properties of the chains of convex_hull_xy, checked under SpecFar where *)
(* the cross products are rounded, overflow or underflow                   *)

\* C3: every point of the returned list is a point of the input.
C3_VerticesFromInput ==
    HullDone => Distinct(hull_xy) \subseteq Distinct(points_xy)

C3_Witness ==
    /\ HullDone
    /\ hull_xy # <<>>
    /\ Distinct(hull_xy) \subseteq Distinct(points_xy)
    /\ Cardinality(Distinct(points_xy)) > Cardinality(Distinct(hull_xy))

\* C2 as stated: the hull of the returned list is the returned list, for
\* every input, three or more distinct collinear points included.
C2_Idempotent ==
    HullDone => convex_hull_xy(hull_xy) = hull_xy

\* C2 amended: unless a test cross <= 0 on the input has in floats another
\* outcome than for the exact cross product, the hull of the returned list is
\* the returned list unless the input's distinct points are three or more
\* points of one line; then the returned list is the two extreme points and
\* its hull is the empty list.
C2_IdempotentWhenExact ==
    HullDone =>
        \/ IdempotentUnlessCollinear(points_xy, hull_xy)
        \/ ~CrossTestsExact(points_xy)

\* a far point among the input, an input point pruned, the hull kept
C2_Witness ==
    /\ HullDone
    /\ CrossTestsExact(points_xy)
    /\ HasFarPoint(points_xy)
    /\ Len(hull_xy) >= 3
    /\ Distinct(hull_xy) # Distinct(points_xy)
    /\ convex_hull_xy(hull_xy) = hull_xy

\* C4 as stated: a returned list of three or more vertices turns strictly
\* counter-clockwise at every cyclically consecutive triple, and no vertex
\* is on the segment between two other vertices.
C4_StrictlyConvexCCW ==
    HullDone /\ Len(hull_xy) >= 3 => StrictlyConvexCCW(hull_xy)

\* C4 amended: unless a test cross <= 0 on the input has in floats another
\* outcome than for the exact cross product, a returned list of three or more
\* vertices is strictly convex and counter-clockwise.
C4_StrictlyConvexWhenExact ==
    HullDone /\ Len(hull_xy) >= 3 =>
        \/ StrictlyConvexCCW(hull_xy)
        \/ ~CrossTestsExact(points_xy)

\* a boundary point between two vertices was in the input and was pruned
C4_Witness ==
    /\ HullDone
    /\ CrossTestsExact(points_xy)
    /\ Len(hull_xy) >= 3
    /\ \E p \in Distinct(points_xy) \ Distinct(hull_xy) :
          \E i \in 1..Len(hull_xy) :
              OnSegment(hull_xy[i], p, hull_xy[CycNext(i, Len(hull_xy))])

\* C6 as stated: three or more distinct points of one line give exactly the
\* smallest and the largest point, in that order.
C6_CollinearGivesEndpoints ==
    HullDone =>
        LET S == Distinct(points_xy)
        IN  Cardinality(S) >= 3 /\ Collinear(S) => hull_xy = <<LexMin(S), LexMax(S)>>

\* C6 amended: unless a test cross <= 0 on the input has in floats another
\* outcome than for the exact cross product, three or more distinct points of
\* one line give exactly the smallest and the largest point, in that order.
C6_CollinearWhenExact ==
    HullDone =>
        LET S == Distinct(points_xy)
        IN  Cardinality(S) >= 3 /\ Collinear(S) =>
                \/ hull_xy = <<LexMin(S), LexMax(S)>>
                \/ ~CrossTestsExact(points_xy)

\* three points of a vertical line, the last one far
C6_Witness ==
    /\ HullDone
    /\ CrossTestsExact(points_xy)
    /\ HasFarPoint(points_xy)
    /\ Cardinality(Distinct(points_xy)) >= 3
    /\ \A p, q \in Distinct(points_xy) : p[1] = q[1]
    /\ Len(hull_xy) = 2

\* C7 as stated: exactly three distinct points not on one line give those
\* three points, each once, counter-clockwise.
C7_TriangleCCW ==
    HullDone =>
        LET S == Distinct(points_xy)
        IN  Cardinality(S) = 3 /\ ~Collinear(S)
                => /\ Len(hull_xy) = 3
                   /\ Distinct(hull_xy) = S
                   /\ Turn(hull_xy[1], hull_xy[2], hull_xy[3]) > 0

\* C7 amended: unless a test cross <= 0 on the input has in floats another
\* outcome than for the exact cross product, exactly three distinct points
\* not on one line give those three points, each once, counter-clockwise.
C7_TriangleWhenExact ==
    HullDone =>
        LET S == Distinct(points_xy)
        IN  Cardinality(S) = 3 /\ ~Collinear(S) =>
                \/ /\ Len(hull_xy) = 3
                   /\ Distinct(hull_xy) = S
                   /\ Turn(hull_xy[1], hull_xy[2], hull_xy[3]) > 0
                \/ ~CrossTestsExact(points_xy)

\* a triangle with a far corner, returned from its smallest point
C7_Witness ==
    /\ HullDone
    /\ CrossTestsExact(points_xy)
    /\ HasFarPoint(points_xy)
    /\ Cardinality(Distinct(points_xy)) = 3
    /\ Len(hull_xy) = 3
    /\ hull_xy[1] = LexMin(Distinct(points_xy))
    /\ hull_xy[3] # LexMax(Distinct(points_xy))

\* C8 as stated: no point occurs at two positions of the returned list.
C8_OpenNoRepeat ==
    HullDone => NoRepeat(hull_xy)

\* C8 amended: unless a test cross <= 0 on the input has in floats another
\* outcome than for the exact cross product, no point occurs at two positions
\* of the returned list.
C8_NoRepeatWhenExact ==
    HullDone => NoRepeat(hull_xy) \/ ~CrossTestsExact(points_xy)

\* a quadrilateral: both chains contribute an inner vertex
C8_Witness ==
    /\ HullDone
    /\ CrossTestsExact(points_xy)
    /\ Len(hull_xy) = 4
    /\ NoRepeat(hull_xy)
    /\ hull_xy[1] = LexMin(Distinct(points_xy))
    /\ hull_xy[3] = LexMax(Distinct(points_xy))

\* C10 as stated: when the returned list has three or more vertices, every
\* input point is on the left of or on every directed edge of it.
C10_Containment ==
    HullDone /\ Len(hull_xy) >= 3 => Contains(hull_xy, points_xy)

\* C10 amended: unless a test cross <= 0 on the input has in floats another
\* outcome than for the exact cross product, when the returned list has three
\* or more vertices, every input point is on the left of or on every directed
\* edge of it.
C10_ContainmentWhenExact ==
    HullDone /\ Len(hull_xy) >= 3 =>
        \/ Contains(hull_xy, points_xy)
        \/ ~CrossTestsExact(points_xy)

\* an input point strictly inside the returned polygon
C10_Witness ==
    /\ HullDone
    /\ CrossTestsExact(points_xy)
    /\ Len(hull_xy) >= 3
    /\ \E j \in DOMAIN points_xy :
          \A i \in 1..Len(hull_xy) :
              Turn(hull_xy[i], hull_xy[CycNext(i, Len(hull_xy))], points_xy[j]) > 0

----------------------------------------------------------------------------
(* Properties of get_cluster_top_tags *)

TagsDone == tags_pc = "done"

\* the positions (row, index) of the sample where tag t occurs in a row of
\* cluster c
Occurrences(c, t) ==
    {<<r, k>> \in (DOMAIN sample) \X (1..MaxTagsPerRow) :
        /\ sample[r].cluster = c
        /\ sample[r].is_list
        /\ k \in DOMAIN sample[r].tags
        /\ sample[r].tags[k] = t}

\* the tags of cluster c's rows that are not in tags_to_delete
Eligible(c) == {t \in TagNames \ tags_to_delete : Occurrences(c, t) # {}}

PosBefore(a, b) == a[1] < b[1] \/ (a[1] = b[1] /\ a[2] < b[2])

FirstOccurrence(c, t) ==
    CHOOSE a \in Occurrences(c, t) : \A b \in Occurrences(c, t) : a = b \/ PosBefore(a, b)

\* t ranks before u in cluster c: a higher count, or the same count and an
\* earlier first occurrence
RanksBefore(c, t, u) ==
    \/ Cardinality(Occurrences(c, t)) > Cardinality(Occurrences(c, u))
    \/ /\ Cardinality(Occurrences(c, t)) = Cardinality(Occurrences(c, u))
       /\ PosBefore(FirstOccurrence(c, t), FirstOccurrence(c, u))

Smaller(a, b) == IF a < b THEN a ELSE b

\* C9: for every cluster but -1 the returned list holds min(n_top_tags,
\* number of eligible tags) distinct eligible tags, in decreasing count with
\* equal counts in order of first occurrence, and every eligible tag left
\* out ranks after every tag returned.
C9_TopTagsRanked ==
    TagsDone =>
        /\ DOMAIN cluster_top_tags = {sample[r].cluster : r \in DOMAIN sample} \ {-1}
        /\ \A c \in DOMAIN cluster_top_tags :
              LET top == cluster_top_tags[c]
              IN  /\ Len(top) = Smaller(n_top_tags, Cardinality(Eligible(c)))
                  /\ \A i \in DOMAIN top : top[i] \in Eligible(c)
                  /\ \A i, j \in DOMAIN top : i < j => RanksBefore(c, top[i], top[j])
                  /\ \A t \in Eligible(c) :
                        (\A i \in DOMAIN top : top[i] # t) =>
                            \A i \in DOMAIN top : RanksBefore(c, top[i], t)

\* two tags of equal count returned in order of first occurrence, the first
\* occurrence of the second tag of the alphabet coming first
C9_Witness ==
    /\ TagsDone
    /\ \E c \in DOMAIN cluster_top_tags :
          /\ cluster_top_tags[c] = <<"parc", "lyon">>
          /\ Cardinality(Occurrences(c, "parc")) = Cardinality(Occurrences(c, "lyon"))
          /\ \E r \in DOMAIN sample : sample[r].cluster # c

=============================================================================
